---- MODULE Spec2Model ----
\* Model of backend/app/pfsense/utils.py: the pfSense configuration
\* synchronisation pipeline (connect, fetch_pfsense_config,
\* push_pfsense_config) running against one remote device, and the pure
\* validator validate_pfsense_config.
EXTENDS Integers, Sequences, FiniteSets, TLC

\* ---------------------------------------------------------------------
\* Bounds
\* ---------------------------------------------------------------------
NumDocs == 2

\* ---------------------------------------------------------------------
\* Values
\* ---------------------------------------------------------------------
\* Every call of an orchestrator operation is one process.
Procs == {1, 2}
\* The calls that run under Spec (one operation at a time on the device).
Callers == {1}

Docs == 1 .. NumDocs

\* The remote commands push_pfsense_config and fetch_pfsense_config run.
Cmds == {"cp", "mv", "rm", "reload", "cat"}
\* The remote steps whose outcome is recorded: the commands and the upload.
Steps == Cmds \cup {"put"}
\* The remote side effects of a push, in the order of the code.
PushSteps == <<"cp", "put", "mv", "rm", "reload">>

\* Outcomes of paramiko's client.connect().
ConnOutcomes == {"ok", "auth", "ssh", "socket"}
\* Outcomes of paramiko.RSAKey.from_private_key_file().
KeyOutcomes == {"ok", "auth", "ssh", "ioerror"}

\* xmltodict.unparse of a dumped model: the markup text of document d.
Encode(d) == <<"xml", d>>
\* xmltodict.parse + PfSenseConfig(**dict): defined on markup text only.
CanDecode(x) == x[1] = "xml"
Decode(x) == x[2]

VARIABLES
  keyFile,      \* settings.PFSENSE_KEY_FILE is set
  faults,       \* the transport and the device may fail on their own
  pc,           \* position of each call in its operation
  op,           \* "none", "fetch" or "push"
  doc,          \* the document handed to push (-1: none)
  sess,         \* "none", "open", "closed": the client returned by connect()
  closeCount,   \* number of client.close() invocations
  authLog,      \* authentication attempts made by connect(), in order
  issued,       \* remote side effects issued by the call, in order
  exits,        \* exit status of each remote command of the call
  result,       \* what the caller receives
  out,          \* stdout of the call's read command
  fetched,      \* the document fetch returns (-1: none)
  running,      \* commands started on the device and not yet finished
  live,         \* contents of CONFIG_DIR on the device
  backup,       \* contents of BACKUP_CONFIG_DIR on the device
  staging,      \* contents of /tmp/config.xml on the device
  cache,        \* /tmp/config.cache exists on the device
  loaded,       \* contents the device's services were last reloaded with
  liveAtStart,  \* contents of CONFIG_DIR when the call started
  cfg,          \* the PfSenseConfig handed to validate_pfsense_config
  verdict,      \* what validate_pfsense_config returned for cfg
  installed,    \* the call's document has been the live file during the call
  codecDoc,     \* the PfSenseConfig handed to the encoder
  markup,       \* the markup text to decode, as its sequence of elements
  tree,         \* what xmltodict.parse returned for markup
  decoded,      \* what PfSenseConfig(**dict) returned for tree
  cstage        \* position of the codec run

vars == <<keyFile, faults, pc, op, doc, sess, closeCount, authLog, issued, exits,
          result, out, fetched, running, live, backup, staging, cache, loaded,
          liveAtStart, cfg, verdict, installed, codecDoc, markup, tree,
          decoded, cstage>>

devVars == <<live, backup, staging, cache, loaded>>

valVars == <<cfg, verdict>>

codecVars == <<codecDoc, markup, tree, decoded, cstage>>

NoExits == [c \in Steps |-> "none"]

InitCalls ==
  /\ keyFile \in BOOLEAN
  /\ pc = [p \in Procs |-> "idle"]
  /\ op = [p \in Procs |-> "none"]
  /\ doc = [p \in Procs |-> -1]
  /\ sess = [p \in Procs |-> "none"]
  /\ closeCount = [p \in Procs |-> 0]
  /\ authLog = [p \in Procs |-> <<>>]
  /\ issued = [p \in Procs |-> <<>>]
  /\ exits = [p \in Procs |-> NoExits]
  /\ result = [p \in Procs |-> "none"]
  /\ out = [p \in Procs |-> <<"absent">>]
  /\ fetched = [p \in Procs |-> -1]
  /\ running = {}
  /\ live = Encode(0)
  /\ backup = <<"absent">>
  /\ staging = <<"absent">>
  /\ cache = TRUE
  /\ loaded = Encode(0)
  /\ liveAtStart = [p \in Procs |-> <<"absent">>]
  /\ installed = [p \in Procs |-> FALSE]

\* ---------------------------------------------------------------------
\* The caller
\* ---------------------------------------------------------------------
\* A caller invokes fetch_pfsense_config() or push_pfsense_config(config).
CallFetch(p) ==
  /\ pc[p] = "idle"
  /\ pc' = [pc EXCEPT ![p] = "connect"]
  /\ op' = [op EXCEPT ![p] = "fetch"]
  /\ liveAtStart' = [liveAtStart EXCEPT ![p] = live]
  /\ UNCHANGED <<keyFile, faults, doc, sess, closeCount, authLog, issued, exits,
                 result, out, fetched, running, devVars, valVars, codecVars, installed>>

CallPush(p) ==
  /\ pc[p] = "idle"
  /\ \E d \in Docs :
       /\ doc' = [doc EXCEPT ![p] = d]
       /\ installed' = [installed EXCEPT ![p] = (live = Encode(d))]
  /\ pc' = [pc EXCEPT ![p] = "connect"]
  /\ op' = [op EXCEPT ![p] = "push"]
  /\ liveAtStart' = [liveAtStart EXCEPT ![p] = live]
  /\ UNCHANGED <<keyFile, faults, sess, closeCount, authLog, issued, exits,
                 result, out, fetched, running, devVars, valVars, codecVars>>

\* ---------------------------------------------------------------------
\* connect()
\* ---------------------------------------------------------------------
\* What the except clauses of connect() turn an outcome into.
ConnectError(o) ==
  CASE o = "auth" -> "AuthenticationFailed"
    [] o = "ssh" -> "ConnectionFailed"
    [] OTHER -> "RawTransportError"

\* One authentication attempt of connect(): how it authenticates and
\* whether client.connect returned (ok) or raised.
Attempt(how, o) == [how |-> how, ok |-> o = "ok"]

\* connect() with the key attempt's exception swallowed, so that the
\* password attempt follows a failed key attempt too.
ConnectAttemptsFallThrough(kf, kl, k, w) ==
  IF kf
    THEN IF kl # "ok" THEN <<>>
         ELSE <<Attempt("key", k), Attempt("password", w)>>
    ELSE <<Attempt("password", w)>>

\* The attempts made, in order, for a key-load outcome kl, a key-connect
\* outcome k and a password-connect outcome w: an outcome other than "ok"
\* raises and ends connect().
ConnectAttempts(kf, kl, k, w) ==
  IF kf
    THEN IF kl # "ok" THEN <<>>
         ELSE IF k # "ok" THEN <<Attempt("key", k)>>
         ELSE <<Attempt("key", k), Attempt("password", w)>>
    ELSE <<Attempt("password", w)>>

\* The first failing outcome ("ok" when none fails).
ConnectOutcome(kf, kl, k, w) ==
  IF kf
    THEN IF kl # "ok" THEN kl
         ELSE IF k # "ok" THEN k ELSE w
    ELSE w

Connect(p) ==
  /\ pc[p] = "connect"
  /\ \E kl \in KeyOutcomes, k \in ConnOutcomes, w \in ConnOutcomes :
       LET o == ConnectOutcome(keyFile, kl, k, w) IN
       /\ faults \/ o = "ok"
       /\ authLog' = [authLog EXCEPT ![p] = ConnectAttempts(keyFile, kl, k, w)]
       /\ IF o = "ok"
            THEN /\ sess' = [sess EXCEPT ![p] = "open"]
                 /\ pc' = [pc EXCEPT ![p] = IF op[p] = "fetch" THEN "cat" ELSE "cp"]
                 /\ UNCHANGED result
            ELSE /\ result' = [result EXCEPT ![p] = ConnectError(o)]
                 /\ pc' = [pc EXCEPT ![p] = "done"]
                 /\ UNCHANGED sess
  /\ UNCHANGED <<keyFile, faults, op, doc, closeCount, issued, exits, out, fetched,
                 running, devVars, liveAtStart, valVars, codecVars, installed>>

\* ---------------------------------------------------------------------
\* The calls of the transport library
\* ---------------------------------------------------------------------
\* An exception leaves the operation: nothing after the raising line runs.
Raise(p, err) ==
  /\ result' = [result EXCEPT ![p] = err]
  /\ pc' = [pc EXCEPT ![p] = "done"]

\* client.exec_command(cmd): opens a channel and starts cmd on the device,
\* or raises SSHException.  It returns as soon as the command is started;
\* the code does not read the command's exit status here.
ExecCommand(p, cmd, next) ==
  \/ /\ running' = running \cup {<<p, cmd>>}
     /\ issued' = [issued EXCEPT ![p] = Append(@, cmd)]
     /\ pc' = [pc EXCEPT ![p] = next]
     /\ UNCHANGED <<result, exits>>
  \/ /\ faults
     /\ Raise(p, "RawTransportError")
     /\ exits' = [exits EXCEPT ![p][cmd] = "raised"]
     /\ UNCHANGED <<running, issued>>

\* client.close()
CloseSession(p) ==
  /\ sess' = [sess EXCEPT ![p] = "closed"]
  /\ closeCount' = [closeCount EXCEPT ![p] = @ + 1]

\* ---------------------------------------------------------------------
\* push_pfsense_config(config)
\* ---------------------------------------------------------------------
\* A push that takes a device-wide lock first: its backup copy waits
\* until no other push is between its backup and its close.
PushBackupLocked(p) ==
  /\ pc[p] = "cp"
  /\ \A q \in Procs \ {p} :
       pc[q] \notin {"open_sftp", "encode", "put", "mv", "rm", "reload", "close"}
  /\ ExecCommand(p, "cp", "open_sftp")
  /\ UNCHANGED <<keyFile, faults, op, doc, sess, closeCount, authLog, out, fetched,
                 devVars, liveAtStart, valVars, codecVars, installed>>

\* client.exec_command(f"cp {remote_config} {backup_config}")
PushBackup(p) ==
  /\ pc[p] = "cp"
  /\ ExecCommand(p, "cp", "open_sftp")
  /\ UNCHANGED <<keyFile, faults, op, doc, sess, closeCount, authLog, out, fetched,
                 devVars, liveAtStart, valVars, codecVars, installed>>

\* sftp = client.open_sftp()
PushOpenSftp(p) ==
  /\ pc[p] = "open_sftp"
  /\ \/ /\ pc' = [pc EXCEPT ![p] = "encode"]
        /\ UNCHANGED result
     \/ faults /\ Raise(p, "RawTransportError")
  /\ UNCHANGED <<keyFile, faults, op, doc, sess, closeCount, authLog, issued, exits,
                 out, fetched, running, devVars, liveAtStart, valVars, codecVars, installed>>

\* model_dump, xmltodict.unparse and the write of the temporary file
PushEncode(p) ==
  /\ pc[p] = "encode"
  /\ \/ /\ pc' = [pc EXCEPT ![p] = "put"]
        /\ UNCHANGED result
     \/ faults /\ Raise(p, "RawOtherError")
  /\ UNCHANGED <<keyFile, faults, op, doc, sess, closeCount, authLog, issued, exits,
                 out, fetched, running, devVars, liveAtStart, valVars, codecVars, installed>>

\* sftp.put(local_path, "/tmp/config.xml"); sftp.close()
\* put blocks until the file is transferred; a failed transfer raises and
\* may leave a truncated file at the staging path.
PushUpload(p) ==
  /\ pc[p] = "put"
  /\ issued' = [issued EXCEPT ![p] = Append(@, "put")]
  /\ \/ /\ staging' = Encode(doc[p])
        /\ exits' = [exits EXCEPT ![p]["put"] = "zero"]
        /\ pc' = [pc EXCEPT ![p] = "mv"]
        /\ UNCHANGED result
     \/ /\ faults
        /\ staging' \in {staging, <<"partial">>}
        /\ exits' = [exits EXCEPT ![p]["put"] = "raised"]
        /\ Raise(p, "RawTransportError")
  /\ UNCHANGED <<keyFile, faults, op, doc, sess, closeCount, authLog, out, fetched,
                 running, live, backup, cache, loaded, liveAtStart, valVars, codecVars, installed>>

\* client.exec_command(f"mv /tmp/config.xml {remote_config}")
PushMove(p) ==
  /\ pc[p] = "mv"
  /\ ExecCommand(p, "mv", "rm")
  /\ UNCHANGED <<keyFile, faults, op, doc, sess, closeCount, authLog, out, fetched,
                 devVars, liveAtStart, valVars, codecVars, installed>>

\* client.exec_command("rm /tmp/config.cache")
PushRemoveCache(p) ==
  /\ pc[p] = "rm"
  /\ ExecCommand(p, "rm", "reload")
  /\ UNCHANGED <<keyFile, faults, op, doc, sess, closeCount, authLog, out, fetched,
                 devVars, liveAtStart, valVars, codecVars, installed>>

\* client.exec_command("/etc/rc.reload_all")
PushReload(p) ==
  /\ pc[p] = "reload"
  /\ ExecCommand(p, "reload", "close")
  /\ UNCHANGED <<keyFile, faults, op, doc, sess, closeCount, authLog, out, fetched,
                 devVars, liveAtStart, valVars, codecVars, installed>>

\* client.close(); return 1
PushClose(p) ==
  /\ pc[p] = "close"
  /\ CloseSession(p)
  /\ result' = [result EXCEPT ![p] = "ret1"]
  /\ pc' = [pc EXCEPT ![p] = "done"]
  /\ UNCHANGED <<keyFile, faults, op, doc, authLog, issued, exits, out, fetched,
                 running, devVars, liveAtStart, valVars, codecVars, installed>>

\* ---------------------------------------------------------------------
\* fetch_pfsense_config()
\* ---------------------------------------------------------------------
\* _, stdout, stderr = client.exec_command(f"cat {CONFIG_DIR}")
FetchCat(p) ==
  /\ pc[p] = "cat"
  /\ ExecCommand(p, "cat", "status")
  /\ UNCHANGED <<keyFile, faults, op, doc, sess, closeCount, authLog, out, fetched,
                 devVars, liveAtStart, valVars, codecVars, installed>>

\* stderr.channel.recv_exit_status() blocks until the command has exited;
\* a status other than 0 closes the session and raises PfSenseError.
FetchStatus(p) ==
  /\ pc[p] = "status"
  /\ exits[p]["cat"] \in {"zero", "nonzero"}
  /\ IF exits[p]["cat"] # "zero"
       THEN /\ CloseSession(p)
            /\ Raise(p, "FetchFailed")
       ELSE /\ pc' = [pc EXCEPT ![p] = "read"]
            /\ UNCHANGED <<sess, closeCount, result>>
  /\ UNCHANGED <<keyFile, faults, op, doc, authLog, issued, exits, out, fetched,
                 running, devVars, liveAtStart, valVars, codecVars, installed>>

\* config_xml = stdout.read().decode(); client.close()
\* A failing read or decode raises before the close is reached.
FetchRead(p) ==
  /\ pc[p] = "read"
  /\ \/ /\ CloseSession(p)
        /\ pc' = [pc EXCEPT ![p] = "parse"]
        /\ UNCHANGED result
     \/ /\ faults
        /\ \E err \in {"RawTransportError", "RawOtherError"} : Raise(p, err)
        /\ UNCHANGED <<sess, closeCount>>
  /\ UNCHANGED <<keyFile, faults, op, doc, authLog, issued, exits, out, fetched,
                 running, devVars, liveAtStart, valVars, codecVars, installed>>

\* xmltodict.parse(config_xml, force_list=...); PfSenseConfig(**...)
FetchParse(p) ==
  /\ pc[p] = "parse"
  /\ IF CanDecode(out[p])
       THEN /\ fetched' = [fetched EXCEPT ![p] = Decode(out[p])]
            /\ result' = [result EXCEPT ![p] = "doc"]
            /\ pc' = [pc EXCEPT ![p] = "done"]
       ELSE /\ Raise(p, "RawOtherError")
            /\ UNCHANGED fetched
  /\ UNCHANGED <<keyFile, faults, op, doc, sess, closeCount, authLog, issued, exits,
                 out, running, devVars, liveAtStart, valVars, codecVars, installed>>

\* ---------------------------------------------------------------------
\* The device
\* ---------------------------------------------------------------------
\* A started command runs to its end on the device, at its own pace.
\* ok = FALSE: the command fails for a reason of the device (permissions,
\* disk space, a failing service) and exits with a status other than 0.
DevEffect(cmd, p, ok) ==
  CASE cmd = "cp" ->
         /\ backup' = IF ok THEN live ELSE backup
         /\ UNCHANGED <<live, staging, cache, loaded, out>>
    [] cmd = "mv" ->
         /\ live' = IF ok THEN staging ELSE live
         /\ staging' = IF ok THEN <<"absent">> ELSE staging
         /\ UNCHANGED <<backup, cache, loaded, out>>
    [] cmd = "rm" ->
         /\ cache' = IF ok THEN FALSE ELSE cache
         /\ UNCHANGED <<live, backup, staging, loaded, out>>
    [] cmd = "reload" ->
         /\ loaded' = IF ok /\ ~cache THEN live ELSE loaded
         /\ cache' = IF ok THEN TRUE ELSE cache
         /\ UNCHANGED <<live, backup, staging, out>>
    [] cmd = "cat" ->
         /\ out' = [out EXCEPT ![p] = IF ok THEN live ELSE <<"absent">>]
         /\ UNCHANGED devVars

\* What a command needs in order to succeed.
DevCan(cmd) ==
  CASE cmd = "mv" -> staging # <<"absent">>
    [] cmd = "rm" -> cache
    [] OTHER -> TRUE

DevRun(p, cmd) ==
  /\ <<p, cmd>> \in running
  /\ running' = running \ {<<p, cmd>>}
  /\ \E ok \in {b \in BOOLEAN : (b => DevCan(cmd)) /\ (~b => (faults \/ ~DevCan(cmd)))} :
       /\ DevEffect(cmd, p, ok)
       /\ exits' = [exits EXCEPT ![p][cmd] = IF ok THEN "zero" ELSE "nonzero"]
  /\ installed' = [q \in Procs |->
                     \/ installed[q]
                     \/ /\ op[q] = "push"
                        /\ pc[q] \notin {"idle", "done"}
                        /\ live' = Encode(doc[q])]
  /\ UNCHANGED <<keyFile, faults, pc, op, doc, sess, closeCount, authLog, issued,
                 result, fetched, liveAtStart, valVars, codecVars>>

\* client.close() tears down the channels of the session: a command that
\* is still running then may be ended by the device without taking effect.
DevKill(p, cmd) ==
  /\ <<p, cmd>> \in running
  /\ sess[p] = "closed"
  /\ running' = running \ {<<p, cmd>>}
  /\ exits' = [exits EXCEPT ![p][cmd] = "killed"]
  /\ UNCHANGED <<keyFile, faults, pc, op, doc, sess, closeCount, authLog, issued,
                 result, out, fetched, devVars, liveAtStart, valVars, codecVars, installed>>

\* ---------------------------------------------------------------------
\* validate_pfsense_config(config)
\* ---------------------------------------------------------------------
\* A str is the sequence of its characters.  An optional value is a
\* sequence of length 0 (None) or 1 (the value).
None == <<>>
Some(x) == <<x>>
\* Python truth of an optional str: None and "" are false.
Truthy(o) == o # None /\ o[1] # <<>>
\* Python truth of an optional model object: only None is false.
Present(o) == o # None

DigitVal ==
  [c \in {"0", "1", "2", "3", "4", "5", "6", "7", "8", "9"} |->
     CASE c = "0" -> 0 [] c = "1" -> 1 [] c = "2" -> 2 [] c = "3" -> 3
       [] c = "4" -> 4 [] c = "5" -> 5 [] c = "6" -> 6 [] c = "7" -> 7
       [] c = "8" -> 8 [] c = "9" -> 9]

\* str.split("."): the pieces of s between the dots.
RECURSIVE SplitDots(_)
SplitDots(s) ==
  IF \A i \in 1 .. Len(s) : s[i] # "."
    THEN <<s>>
    ELSE LET i == CHOOSE j \in 1 .. Len(s) :
                    s[j] = "." /\ \A k \in 1 .. j - 1 : s[k] # "."
         IN <<SubSeq(s, 1, i - 1)>> \o SplitDots(SubSeq(s, i + 1, Len(s)))

\* int(octet) for a str of decimal digits.
RECURSIVE DecimalValue(_)
DecimalValue(o) ==
  IF o = <<>> THEN 0
  ELSE 10 * DecimalValue(SubSeq(o, 1, Len(o) - 1)) + DigitVal[o[Len(o)]]

\* ipaddress.IPv4Address._parse_octet accepts 1 to 3 decimal digits with
\* no leading zero and a value of at most 255.
OctetOK(o) ==
  /\ Len(o) \in 1 .. 3
  /\ \A i \in 1 .. Len(o) : o[i] \in DOMAIN DigitVal
  /\ (Len(o) > 1 => o[1] # "0")
  /\ DecimalValue(o) <= 255

\* ipaddress.IPv4Address(s) raises ValueError unless s is four octets.
IsIPv4(s) ==
  /\ s # <<>>
  /\ Len(SplitDots(s)) = 4
  /\ \A i \in 1 .. 4 : OctetOK(SplitDots(s)[i])

\* The address as its four octets, most significant first.
IPv4Address(s) == [i \in 1 .. 4 |-> DecimalValue(SplitDots(s)[i])]

\* a < b on addresses: the order of their 32-bit values.
IPv4Less(a, b) ==
  \E i \in 1 .. 4 : a[i] < b[i] /\ \A j \in 1 .. i - 1 : a[j] = b[j]

Pow2(n) == CASE n = 0 -> 1 [] n = 1 -> 2 [] n = 2 -> 4 [] n = 3 -> 8
             [] n = 4 -> 16 [] n = 5 -> 32 [] n = 6 -> 64 [] n = 7 -> 128
             [] n = 8 -> 256

\* The number of leading bits of octet i that a prefix of length n covers.
OctetBits(n, i) ==
  IF n >= 8 * i THEN 8 ELSE IF n <= 8 * (i - 1) THEN 0 ELSE n - 8 * (i - 1)

\* ipaddress.IPv4Network(f"{ipaddr}/{subnet}", strict=False) raises
\* ValueError unless ipaddr is an address and subnet a prefix length.
IsIPv4Network(ipaddr, subnet) == IsIPv4(ipaddr) /\ subnet \in 0 .. 32

\* ip in IPv4Network(net/n, strict=False): the first n bits agree.
InNetwork(ip, net, n) ==
  \A i \in 1 .. 4 :
    ip[i] \div Pow2(8 - OctetBits(n, i)) = net[i] \div Pow2(8 - OctetBits(n, i))

\* config.dhcpd and config.dhcpd.lan and config.dhcpd.lan.range
HasRange(c) ==
  /\ Present(c.dhcpd)
  /\ Present(c.dhcpd[1].lan)
  /\ Present(c.dhcpd[1].lan[1].range)

RangeOf(c) == c.dhcpd[1].lan[1].range[1]

\* dhcp_range.from_ and dhcp_range.to
HasEndpoints(c) == Truthy(RangeOf(c).from_) /\ Truthy(RangeOf(c).to)

\* The range check with "from_ip > to_ip" in place of "from_ip >= to_ip".
RangeConsistencyEqualAccepted(c) ==
  IF ~HasRange(c) THEN TRUE
  ELSE IF ~HasEndpoints(c) THEN TRUE
  ELSE LET f == RangeOf(c).from_[1]
           t == RangeOf(c).to[1]
       IN IF ~(IsIPv4(f) /\ IsIPv4(t)) THEN FALSE
          ELSE IF IPv4Less(IPv4Address(t), IPv4Address(f)) THEN FALSE
          ELSE TRUE

_validate_dhcp_range_consistency(c) ==
  IF ~HasRange(c) THEN TRUE
  ELSE IF ~HasEndpoints(c) THEN TRUE
  ELSE LET f == RangeOf(c).from_[1]
           t == RangeOf(c).to[1]
       IN IF ~(IsIPv4(f) /\ IsIPv4(t)) THEN FALSE
          ELSE IF ~IPv4Less(IPv4Address(f), IPv4Address(t)) THEN FALSE
          ELSE TRUE

\* The subnet check with only "from_ip not in lan_network".
SubnetConsistencyFromOnly(c) ==
  IF ~(c.ipaddr # None /\ IsIPv4Network(c.ipaddr[1], c.subnet)) THEN TRUE
  ELSE IF ~HasRange(c) THEN TRUE
  ELSE IF ~HasEndpoints(c) THEN TRUE
  ELSE LET f == RangeOf(c).from_[1]
           t == RangeOf(c).to[1]
           net == IPv4Address(c.ipaddr[1])
       IN IF ~(IsIPv4(f) /\ IsIPv4(t)) THEN TRUE
          ELSE IF ~InNetwork(IPv4Address(f), net, c.subnet) THEN FALSE
          ELSE TRUE

_validate_dhcp_subnet_consistency(c) ==
  IF ~(c.ipaddr # None /\ IsIPv4Network(c.ipaddr[1], c.subnet)) THEN TRUE
  ELSE IF ~HasRange(c) THEN TRUE
  ELSE IF ~HasEndpoints(c) THEN TRUE
  ELSE LET f == RangeOf(c).from_[1]
           t == RangeOf(c).to[1]
           net == IPv4Address(c.ipaddr[1])
       IN IF ~(IsIPv4(f) /\ IsIPv4(t)) THEN TRUE
          ELSE IF \/ ~InNetwork(IPv4Address(f), net, c.subnet)
                  \/ ~InNetwork(IPv4Address(t), net, c.subnet)
                 THEN FALSE
          ELSE TRUE

\* The checks of validate_pfsense_config in the order of the code.
CheckOrder == <<"hostname", "ipaddr", "range", "subnet">>

\* One check with the LAN address test "not config.interfaces.lan.ipaddr"
\* left out.
CheckOKNoLanAddr(c, name) ==
  CASE name = "hostname" -> Truthy(c.hostname)
    [] name = "ipaddr" -> TRUE
    [] name = "range" -> _validate_dhcp_range_consistency(c)
    [] name = "subnet" -> _validate_dhcp_subnet_consistency(c)

\* The condition under which a check lets validate_pfsense_config go on.
CheckOK(c, name) ==
  CASE name = "hostname" -> Truthy(c.hostname)
    [] name = "ipaddr" -> Truthy(c.ipaddr)
    [] name = "range" -> _validate_dhcp_range_consistency(c)
    [] name = "subnet" -> _validate_dhcp_subnet_consistency(c)

\* Every check evaluated, whatever the earlier ones returned.
ChecksRunAll(c) == CheckOrder

\* The checks validate_pfsense_config evaluates, in order, up to and
\* including the first that fails ("return False").
ChecksRun(c) ==
  IF \A i \in 1 .. Len(CheckOrder) : CheckOK(c, CheckOrder[i])
    THEN CheckOrder
    ELSE LET i == CHOOSE j \in 1 .. Len(CheckOrder) :
                    /\ ~CheckOK(c, CheckOrder[j])
                    /\ \A k \in 1 .. j - 1 : CheckOK(c, CheckOrder[k])
         IN SubSeq(CheckOrder, 1, i)

\* The returned bool, the check whose failure was logged ("none") and the
\* checks evaluated.
validate_pfsense_config(c) ==
  LET run == ChecksRun(c)
      bad == {i \in 1 .. Len(run) : ~CheckOK(c, run[i])}
  IN IF bad = {}
       THEN [valid |-> TRUE, failed |-> "none", checks |-> run]
       ELSE [valid |-> FALSE,
             failed |-> run[CHOOSE i \in bad : \A j \in bad : i <= j],
             checks |-> run]

\* The values the fields of a document are drawn from.
Hostnames == {None, Some(<<>>), Some(<<"f", "w">>)}
LanAddrs == {None, Some(<<>>), Some(<<"d", "h", "c", "p">>), Some(<<"1", "9", "2", ".", "1", "6", "8", ".", "1", ".", "1">>)}
Subnets == {16, 24, 33}
Endpoints ==
  { None, Some(<<>>), Some(<<"d", "h", "c", "p">>),
    Some(<<"1", "9", "2", ".", "1", "6", "8", ".", "1", ".", "5", "0">>),
    Some(<<"1", "9", "2", ".", "1", "6", "8", ".", "1", ".", "1", "0", "0">>),
    Some(<<"1", "9", "2", ".", "1", "6", "8", ".", "2", ".", "1", "0">>),
    Some(<<"1", "9", "2", ".", "1", "6", "8", ".", "1", ".", "2", "5", "6">>) }
Ranges == {None} \cup {Some([from_ |-> f, to |-> t]) : f \in Endpoints, t \in Endpoints}
Lans == {None} \cup {Some([range |-> r]) : r \in Ranges}
Dhcpds == {None} \cup {Some([lan |-> l]) : l \in Lans}
Configs == [hostname : Hostnames, ipaddr : LanAddrs, subnet : Subnets, dhcpd : Dhcpds]

NoVerdict == [valid |-> FALSE, failed |-> "unset", checks |-> <<>>]
NoConfig == [hostname |-> None, ipaddr |-> None, subnet |-> 0, dhcpd |-> None]

Validate ==
  /\ verdict = NoVerdict
  /\ verdict' = validate_pfsense_config(cfg)
  /\ UNCHANGED <<keyFile, faults, pc, op, doc, sess, closeCount, authLog, issued,
                 exits, result, out, fetched, running, devVars, liveAtStart,
                 cfg, installed, codecVars>>

\* ---------------------------------------------------------------------
\* The codec: xmltodict.parse / PfSenseConfig(**dict) and
\* model_dump / xmltodict.unparse
\* ---------------------------------------------------------------------
\* Markup text is the sequence of the child elements of one parent, each
\* <name>text</name>; a str is the sequence of its characters.
MaxElems == 3
MaxEntries == 2

\* force_list without "staticmap".
ForceListNoStaticmap == {"user", "group"}

\* force_list=("user", "group", "staticmap")
ForceList == {"user", "group", "staticmap"}

ElemNames == {"hostname", "from", "user", "group", "staticmap"}
ElemTexts == {<<>>, <<"a">>, <<"b">>, <<" ", "a">>}
Elems == [name : ElemNames, text : ElemTexts]

\* str.strip() on the character data of an element.
RECURSIVE Strip(_)
Strip(t) ==
  IF t = <<>> THEN t
  ELSE IF t[1] = " " THEN Strip(Tail(t))
  ELSE IF t[Len(t)] = " " THEN Strip(SubSeq(t, 1, Len(t) - 1))
  ELSE t

\* The value xmltodict gives an element: its stripped text, None if empty.
ElemData(t) == IF Strip(t) = <<>> THEN None ELSE Some(Strip(t))

EmptyDict == [n \in {} |-> 0]

\* xmltodict's push_data: a repeated key becomes a list, a first
\* occurrence is a list only when force_list names the key.
PushData(item, key, data, force) ==
  IF key \in DOMAIN item
    THEN [n \in DOMAIN item |->
            IF n = key
              THEN [list |-> TRUE, items |-> Append(item[n].items, data)]
              ELSE item[n]]
    ELSE [n \in DOMAIN item \cup {key} |->
            IF n = key
              THEN [list |-> key \in force, items |-> <<data>>]
              ELSE item[n]]

RECURSIVE ParseFrom(_, _, _)
ParseFrom(elems, item, force) ==
  IF elems = <<>> THEN item
  ELSE ParseFrom(Tail(elems),
                 PushData(item, elems[1].name, ElemData(elems[1].text), force),
                 force)

\* xmltodict.parse(config_xml, force_list=force)
xmltodict_parse(elems, force) == ParseFrom(elems, EmptyDict, force)

\* The values of name in elems, in document order.
RECURSIVE ValuesOf(_, _)
ValuesOf(elems, name) ==
  IF elems = <<>> THEN <<>>
  ELSE (IF elems[1].name = name THEN <<ElemData(elems[1].text)>> ELSE <<>>)
       \o ValuesOf(Tail(elems), name)

\* PfSenseConfig(**dict): the typed projection of the parsed tree.
SchemaOK(t) ==
  /\ "hostname" \in DOMAIN t
  /\ ~t["hostname"].list
  /\ t["hostname"].items[1] # None
  /\ "from" \in DOMAIN t => ~t["from"].list
  /\ \A n \in ForceList :
       n \in DOMAIN t =>
         /\ t[n].list
         /\ \A i \in 1 .. Len(t[n].items) : t[n].items[i] # None

ListField(t, n) ==
  IF n \in DOMAIN t THEN [i \in 1 .. Len(t[n].items) |-> t[n].items[i][1]]
  ELSE <<>>

PfSenseConfig(t) ==
  IF ~SchemaOK(t) THEN [ok |-> FALSE]
  ELSE [ok |-> TRUE,
        doc |-> [hostname |-> t["hostname"].items[1],
                 from_ |-> IF "from" \in DOMAIN t THEN t["from"].items[1] ELSE None,
                 user |-> ListField(t, "user"),
                 group |-> ListField(t, "group"),
                 staticmap |-> ListField(t, "staticmap")]]

\* config.model_dump(by_alias=True): the fields in order, from_ as "from".
model_dump(d) ==
  << [key |-> "hostname", list |-> FALSE, items |-> <<d.hostname>>],
     [key |-> "from", list |-> FALSE, items |-> <<d.from_>>],
     [key |-> "user", list |-> TRUE, items |-> [i \in 1 .. Len(d.user) |-> Some(d.user[i])]],
     [key |-> "group", list |-> TRUE, items |-> [i \in 1 .. Len(d.group) |-> Some(d.group[i])]],
     [key |-> "staticmap", list |-> TRUE,
      items |-> [i \in 1 .. Len(d.staticmap) |-> Some(d.staticmap[i])]] >>

\* The elements xmltodict.unparse emits for one key: one per list item
\* (none for an empty list), an empty element for None.
EmitKey(kv) ==
  [i \in 1 .. Len(kv.items) |->
     [name |-> kv.key,
      text |-> IF kv.items[i] = None THEN <<>> ELSE kv.items[i][1]]]

RECURSIVE xmltodict_unparse(_)
xmltodict_unparse(dump) ==
  IF dump = <<>> THEN <<>>
  ELSE EmitKey(dump[1]) \o xmltodict_unparse(Tail(dump))

\* The documents and markup texts the codec is applied to.
RECURSIVE SeqsUpTo(_, _)
SeqsUpTo(S, n) ==
  IF n = 0 THEN {<<>>}
  ELSE SeqsUpTo(S, n - 1) \cup
       {Append(q, x) : q \in {r \in SeqsUpTo(S, n - 1) : Len(r) = n - 1}, x \in S}

Entries == {<<"a">>, <<"b">>}
CodecDocs ==
  [hostname : {Some(<<"a">>), Some(<<"b">>)},
   from_ : {None, Some(<<>>), Some(<<"a">>)},
   user : SeqsUpTo(Entries, MaxEntries),
   group : SeqsUpTo(Entries, MaxEntries),
   staticmap : SeqsUpTo(Entries, MaxEntries)]
Markups == SeqsUpTo(Elems, MaxElems)

NoCodecDoc ==
  [hostname |-> None, from_ |-> None, user |-> <<>>, group |-> <<>>,
   staticmap |-> <<>>]
NoDecoded == [ok |-> FALSE]

InitCodecIdle ==
  /\ codecDoc = NoCodecDoc
  /\ markup = <<>>
  /\ tree = EmptyDict
  /\ decoded = NoDecoded
  /\ cstage = <<"idle">>

\* push: config_dict = {"pfsense": config.model_dump(by_alias=True)};
\* config_xml = xmltodict.unparse(config_dict, pretty=True)
EncodeDoc ==
  /\ cstage = <<"doc">>
  /\ markup' = xmltodict_unparse(model_dump(codecDoc))
  /\ cstage' = <<"encoded">>
  /\ UNCHANGED <<keyFile, faults, pc, op, doc, sess, closeCount, authLog, issued,
                 exits, result, out, fetched, running, devVars, liveAtStart,
                 valVars, installed, codecDoc, tree, decoded>>

\* config_dict = xmltodict.parse(config_xml, force_list=(...));
\* PfSenseConfig(**config_dict["pfsense"]), in the operation named by.
DecodeMarkup(by) ==
  /\ cstage \in {<<"text">>, <<"encoded">>}
  /\ tree' = xmltodict_parse(markup, ForceList)
  /\ decoded' = PfSenseConfig(tree')
  /\ cstage' = <<by, cstage[1]>>
  /\ UNCHANGED <<keyFile, faults, pc, op, doc, sess, closeCount, authLog, issued,
                 exits, result, out, fetched, running, devVars, liveAtStart,
                 valVars, installed, codecDoc, markup>>

\* fetch_pfsense_config: the decoding of the command's stdout
FetchDecode == DecodeMarkup("fetch")

\* load_pfsense_config_from_file: the decoding of the file's text
LoadDecode == DecodeMarkup("load")

\* ---------------------------------------------------------------------
\* Specification: one operation at a time on the device
\* ---------------------------------------------------------------------
Step(p) ==
  \/ CallFetch(p)
  \/ CallPush(p)
  \/ Connect(p)
  \/ PushBackup(p)
  \/ PushOpenSftp(p)
  \/ PushEncode(p)
  \/ PushUpload(p)
  \/ PushMove(p)
  \/ PushRemoveCache(p)
  \/ PushReload(p)
  \/ PushClose(p)
  \/ FetchCat(p)
  \/ FetchStatus(p)
  \/ FetchRead(p)
  \/ FetchParse(p)
  \/ \E cmd \in Cmds : DevRun(p, cmd)
  \/ \E cmd \in Cmds : DevKill(p, cmd)

Next == \E p \in Callers : Step(p)

Init ==
  /\ InitCalls
  /\ faults = TRUE
  /\ InitCodecIdle
  /\ cfg = NoConfig
  /\ verdict = NoVerdict

Spec == Init /\ [][Next]_vars

\* ---------------------------------------------------------------------
\* Specification: push_pfsense_config called concurrently by every
\* process of Procs against the same device
\* ---------------------------------------------------------------------
InitConcurrent ==
  /\ InitCalls
  /\ keyFile = FALSE
  /\ faults = FALSE
  /\ InitCodecIdle
  /\ cfg = NoConfig
  /\ verdict = NoVerdict

PushStep(p) ==
  \/ CallPush(p)
  \/ Connect(p)
  \/ PushBackup(p)
  \/ PushOpenSftp(p)
  \/ PushEncode(p)
  \/ PushUpload(p)
  \/ PushMove(p)
  \/ PushRemoveCache(p)
  \/ PushReload(p)
  \/ PushClose(p)
  \/ \E cmd \in Cmds : DevRun(p, cmd)
  \/ \E cmd \in Cmds : DevKill(p, cmd)

NextConcurrent == \E p \in Procs : PushStep(p)

SpecConcurrent == InitConcurrent /\ [][NextConcurrent]_vars

\* ---------------------------------------------------------------------
\* Specification: the validator applied to every document of Configs
\* ---------------------------------------------------------------------
InitValidate ==
  /\ InitCalls
  /\ faults = TRUE
  /\ InitCodecIdle
  /\ cfg \in Configs
  /\ verdict = NoVerdict

NextValidate == Validate

SpecValidate == InitValidate /\ [][NextValidate]_vars

\* ---------------------------------------------------------------------
\* Specification: the codec applied to every text of Markups and every
\* document of CodecDocs
\* ---------------------------------------------------------------------
InitCodec ==
  /\ InitCalls
  /\ faults = TRUE
  /\ keyFile = FALSE
  /\ cfg = NoConfig
  /\ verdict = NoVerdict
  /\ tree = EmptyDict
  /\ decoded = NoDecoded
  /\ \/ /\ cstage = <<"text">>
        /\ markup \in Markups
        /\ codecDoc = NoCodecDoc
     \/ /\ cstage = <<"doc">>
        /\ markup = <<>>
        /\ codecDoc \in CodecDocs

NextCodec ==
  \/ EncodeDoc
  \/ FetchDecode
  \/ LoadDecode

SpecCodec == InitCodec /\ [][NextCodec]_vars

TypeOK ==
  /\ keyFile \in BOOLEAN
  /\ faults \in BOOLEAN
  /\ \A p \in Procs :
       /\ op[p] \in {"none", "fetch", "push"}
       /\ doc[p] \in Docs \cup {-1}
       /\ sess[p] \in {"none", "open", "closed"}
       /\ closeCount[p] \in 0 .. 1
       /\ Len(issued[p]) <= 5
       /\ \A s \in Steps : exits[p][s] \in {"none", "zero", "nonzero", "killed", "raised"}
       /\ result[p] \in {"none", "ret1", "doc", "AuthenticationFailed", "ConnectionFailed",
                         "FetchFailed", "RawTransportError", "RawOtherError"}
  /\ running \subseteq Procs \X Cmds

\* ---------------------------------------------------------------------
\* Properties
\* ---------------------------------------------------------------------
Done(p) == pc[p] = "done"
\* connect() returned a client to the operation.
Connected(p) == sess[p] # "none"
\* The steps of a push after the best-effort backup copy.
FatalSteps == {"put", "mv", "rm", "reload"}
\* A step failed: its command exited with a status other than 0, or the
\* call that issues it raised.
Failed(p, s) == exits[p][s] \in {"nonzero", "raised"}
\* The position of a step in the push sequence.
StepIndex(s) == CHOOSE i \in 1 .. Len(PushSteps) : PushSteps[i] = s
IsIssued(p, s) == \E i \in 1 .. Len(issued[p]) : issued[p][i] = s

\* C1: every push that obtained a session issues the side effects
\* cp, upload, mv, rm, reload in that order, each exactly once, and
\* invokes close exactly once, whatever the outcome of each step.
C1_PushSequenceAndCloseOnce ==
  \A p \in Procs :
    (op[p] = "push" /\ Done(p) /\ Connected(p)) =>
      (issued[p] = PushSteps /\ closeCount[p] = 1)

\* C2: an operation that has returned or raised has closed the session it
\* opened through connect().
C2_SessionClosedOnEveryExit ==
  \A p \in Procs : (Done(p) /\ Connected(p)) => sess[p] = "closed"

\* C3: once a step after the backup copy has failed no later step of the
\* push is issued and the push ends with its session closed; a push
\* returns success only when upload, move, cache removal and reload have
\* all succeeded.
C3_FailureGoesToClosed ==
  \A p \in Procs :
    op[p] = "push" =>
      /\ \A s \in FatalSteps, t \in FatalSteps :
           (Failed(p, s) /\ StepIndex(s) < StepIndex(t)) => ~IsIssued(p, t)
      /\ (Done(p) /\ \E s \in FatalSteps : Failed(p, s)) => sess[p] = "closed"
      /\ result[p] = "ret1" => \A s \in FatalSteps : exits[p][s] = "zero"

\* C4: a command still running on the device is the last side effect its
\* call has issued, and its session is still open: each command finishes
\* before the next step is issued and before the session is closed.
C4_StrictlySequentialOnDevice ==
  \A p \in Procs, c \in Cmds :
    <<p, c>> \in running =>
      (sess[p] = "open" /\ issued[p][Len(issued[p])] = c)

\* C5: whenever the move of a push replaces the live configuration, the
\* backup path holds the contents the live file had when the push started.
C5_BackupHeldWhenLiveReplaced ==
  [][\A p \in Procs :
       (exits[p]["mv"] = "none" /\ exits'[p]["mv"] = "zero") =>
         backup' = liveAtStart[p]]_vars

\* C6: a fetch that obtained a session ends with the session closed, and
\* either the read command exited with 0 and the decoded stdout is
\* returned, or it ends with the fetch failure error and nothing decoded.
C6_FetchOutcome ==
  \A p \in Procs :
    (op[p] = "fetch" /\ Done(p) /\ Connected(p)) =>
      /\ sess[p] = "closed"
      /\ \/ /\ exits[p]["cat"] = "zero"
            /\ result[p] = "doc"
            /\ fetched[p] = Decode(out[p])
         \/ /\ result[p] = "FetchFailed"
            /\ fetched[p] = -1

\* C7: no caller receives a raw error of the transport library.
C7_NoRawTransportError ==
  \A p \in Procs : result[p] # "RawTransportError"

\* C8: an operation one of whose commands exited with a status other than
\* 0 does not report success to its caller.
C8_NonZeroExitSurfaced ==
  \A p \in Procs :
    (Done(p) /\ \E c \in Cmds : exits[p][c] = "nonzero") =>
      result[p] \notin {"ret1", "doc"}

\* C9: a push returns 1 exactly when upload, move, cache removal and
\* reload all succeeded.
C9_ReturnsOneIffSuccessful ==
  \A p \in Procs :
    (op[p] = "push" /\ Done(p) /\ result[p] \in {"ret0", "ret1"}) =>
      (result[p] = "ret1" <=> \A s \in FatalSteps : exits[p][s] = "zero")

\* A non-empty range endpoint of c that is not an IPv4 address.
HasSentinelEndpoint(c) ==
  /\ HasRange(c)
  /\ \E e \in {RangeOf(c).from_, RangeOf(c).to} : Truthy(e) /\ ~IsIPv4(e[1])

\* C10: a document with a hostname, a LAN address and a sentinel range
\* endpoint is reported valid.
C10_SentinelTolerated ==
  (/\ verdict # NoVerdict
   /\ Truthy(cfg.hostname)
   /\ Truthy(cfg.ipaddr)
   /\ HasSentinelEndpoint(cfg)) => verdict.valid

\* Both endpoints of the DHCP range of c are present and are IPv4 addresses.
BothParseable(c) ==
  /\ HasRange(c)
  /\ HasEndpoints(c)
  /\ IsIPv4(RangeOf(c).from_[1])
  /\ IsIPv4(RangeOf(c).to[1])

FromIP(c) == IPv4Address(RangeOf(c).from_[1])
ToIP(c) == IPv4Address(RangeOf(c).to[1])
Validated == verdict # NoVerdict

\* C11: with both endpoints parseable, a document with from >= to is
\* rejected, and with from < to the range-consistency check does not fail.
C11_DhcpOrdering ==
  (Validated /\ BothParseable(cfg)) =>
    /\ ~IPv4Less(FromIP(cfg), ToIP(cfg)) => ~verdict.valid
    /\ IPv4Less(FromIP(cfg), ToIP(cfg)) => verdict.failed # "range"

\* A document with equal parseable endpoints, rejected by the range check.
C11_Witness ==
  /\ Validated
  /\ BothParseable(cfg)
  /\ FromIP(cfg) = ToIP(cfg)
  /\ verdict.failed = "range"

\* The LAN ipaddr/subnet of c form an IPv4 network.
NetworkParseable(c) == c.ipaddr # None /\ IsIPv4Network(c.ipaddr[1], c.subnet)

InLan(c, ip) == InNetwork(ip, IPv4Address(c.ipaddr[1]), c.subnet)

\* C12: with a parseable LAN network and parseable endpoints, a document
\* is accepted only if both endpoints lie inside the LAN network.
C12_SubnetContainment ==
  (Validated /\ NetworkParseable(cfg) /\ BothParseable(cfg)) =>
    (verdict.valid => (InLan(cfg, FromIP(cfg)) /\ InLan(cfg, ToIP(cfg))))

\* 192.168.1.1/24 with from = 192.168.1.50 inside and to = 192.168.2.10
\* outside: rejected by the subnet check.
C12_Witness ==
  /\ Validated
  /\ cfg.ipaddr = Some(<<"1", "9", "2", ".", "1", "6", "8", ".", "1", ".", "1">>)
  /\ cfg.subnet = 24
  /\ BothParseable(cfg)
  /\ RangeOf(cfg).from_ = Some(<<"1", "9", "2", ".", "1", "6", "8", ".", "1", ".", "5", "0">>)
  /\ RangeOf(cfg).to = Some(<<"1", "9", "2", ".", "1", "6", "8", ".", "2", ".", "1", "0">>)
  /\ verdict.failed = "subnet"

\* C13: a document with an empty hostname is rejected with the hostname
\* as the reported reason, and a document with an empty LAN address is
\* rejected, whatever the rest of the document holds.
C13_RequiredFields ==
  Validated =>
    /\ ~Truthy(cfg.hostname) => (~verdict.valid /\ verdict.failed = "hostname")
    /\ ~Truthy(cfg.ipaddr) => ~verdict.valid

\* An empty hostname in a document that is valid otherwise.
C13_Witness ==
  /\ Validated
  /\ cfg.hostname = Some(<<>>)
  /\ cfg.ipaddr = Some(<<"1", "9", "2", ".", "1", "6", "8", ".", "1", ".", "1">>)
  /\ cfg.subnet = 24
  /\ BothParseable(cfg)
  /\ RangeOf(cfg).from_ = Some(<<"1", "9", "2", ".", "1", "6", "8", ".", "1", ".", "5", "0">>)
  /\ RangeOf(cfg).to = Some(<<"1", "9", "2", ".", "1", "6", "8", ".", "1", ".", "1", "0", "0">>)
  /\ ~verdict.valid
  /\ verdict.failed = "hostname"

InChecks(name) == \E i \in 1 .. Len(verdict.checks) : verdict.checks[i] = name

\* C18 as claimed: the range check is evaluated for every document, and
\* the subnet check for every document whose range inputs are present.
C18_AllChecksEvaluated ==
  Validated =>
    /\ InChecks("range")
    /\ (HasRange(cfg) /\ HasEndpoints(cfg)) => InChecks("subnet")

\* C18 as amended: the checks are evaluated in the order hostname, LAN
\* address, range, subnet and evaluation stops at the first that fails:
\* the range check is evaluated exactly when hostname and LAN address are
\* non-empty, the subnet check exactly when the range check was evaluated
\* and passed.
C18_ChecksStopAtFirstFailure ==
  Validated =>
    /\ InChecks("range") <=> (Truthy(cfg.hostname) /\ Truthy(cfg.ipaddr))
    /\ InChecks("subnet") <=> (InChecks("range") /\ verdict.failed # "range")

\* An empty hostname with the range inputs present: only the hostname
\* check was evaluated.
C18_Witness ==
  /\ Validated
  /\ ~Truthy(cfg.hostname)
  /\ HasRange(cfg) /\ HasEndpoints(cfg)
  /\ verdict.checks = <<"hostname">>

\* connect() has returned or raised in call p.
PastConnect(p) == pc[p] \notin {"idle", "connect"}

IsDecoded == cstage \in {"fetch", "load"} \X {"text", "encoded"}
\* The text decoded was the encoding of codecDoc.
IsRoundTrip == cstage \in {"fetch", "load"} \X {"encoded"}

\* The number of elements of markup with the given name.
Occurrences(name) == Len(ValuesOf(markup, name))

\* C14: decoding a text with n >= 1 user, group or staticmap elements
\* gives for that name a sequence of the n values in document order, a
\* sequence of length 1 when n = 1.
C14_ListForcing ==
  IsDecoded =>
    \A n \in {"user", "group", "staticmap"} :
      Occurrences(n) >= 1 =>
        /\ n \in DOMAIN tree
        /\ tree[n].list
        /\ tree[n].items = ValuesOf(markup, n)

\* A text with exactly one staticmap element, decoded to a sequence of
\* length 1.
C14_Witness ==
  /\ IsDecoded
  /\ Occurrences("staticmap") = 1
  /\ tree["staticmap"].list
  /\ Len(tree["staticmap"].items) = 1

\* C15: decoding the encoding of a document gives a document field-equal
\* to it.
C15_RoundTrip ==
  IsRoundTrip => (decoded.ok /\ decoded.doc = codecDoc)

\* C16: concurrent pushes are not coordinated: a push that has obtained
\* its session is never made to wait for another push before its backup
\* copy, its upload or its move, whatever the other push is doing.
C16_NoCoordination ==
  \A p \in Procs :
    /\ pc[p] = "cp" => ENABLED PushBackup(p)
    /\ pc[p] = "put" => ENABLED PushUpload(p)
    /\ pc[p] = "mv" => ENABLED PushMove(p)

\* A corrupted replace: the live file holds the document of push q, whose
\* own move has not succeeded; the move of push p installed it from the
\* shared staging path, and p was pushing a different document.
C16_Witness ==
  \E p \in Procs, q \in Procs :
    /\ p # q
    /\ op[p] = "push" /\ op[q] = "push"
    /\ doc[p] # doc[q]
    /\ exits[p]["mv"] = "zero"
    /\ exits[q]["mv"] # "zero"
    /\ live = Encode(doc[q])

\* C19: a push that has returned 1 has had its own document as the live
\* configuration at some point between its start and its return.
C19_SuccessMeansOwnDocumentInstalled ==
  \A p \in Procs : result[p] = "ret1" => installed[p]

====
